---- MODULE Spec2Model ----
(***************************************************************************)
(* A model of the chart container of react-timeseries-charts:              *)
(*   - ChartContainer.render (src/src/components/ChartContainer.js): the   *)
(*     axis column widths, the time scale and the vertical stacking of     *)
(*     the rows;                                                           *)
(*   - the EventHandler the container mounts (declared in                  *)
(*     dist/EventHandler.d.ts): pan, drag zoom, wheel zoom and hover.      *)
(*                                                                         *)
(* Numbers.  Pixel widths and times (epoch milliseconds) are integers.     *)
(* A row height is kept in half pixels (201 is 100.5px) so that the        *)
(* parseInt of render has something to truncate.  A pixel position the     *)
(* time scale returns is an exact fraction <<num, den>> with den > 0.      *)
(***************************************************************************)
EXTENDS Integers, Sequences, FiniteSets, TLC

VARIABLES
    props,              \* this.props of the ChartContainer (without children)
    children,           \* this.props.children of the ChartContainer
    leftWidth,          \* this.leftWidth
    rightWidth,         \* this.rightWidth
    timeScale,          \* this.timeScale
    out,                \* what the last call of render produced
    isDragging,         \* EventHandlerState
    isPanning,
    initialPanBegin,
    initialPanEnd,
    initialPanPosition,
    initialDragZoom,
    currentDragZoom,
    hover,              \* last known pointer position inside the plot
    lastEvent,          \* the event the EventHandler handled last
    emitted,            \* argument of onTimeRangeChanged in the last step
    tracker,            \* argument of onTrackerChanged in the last step
    clicked,            \* onBackgroundClick was called in the last step
    anchorAfterLeave,   \* history: the drag anchor was recorded after the last leave
    prevMode,           \* history: the mode in which the last event arrived
    nEvents             \* number of events handled so far

containerVars == <<props, children, leftWidth, rightWidth, timeScale, out>>
handlerVars == <<isDragging, isPanning, initialPanBegin, initialPanEnd,
                 initialPanPosition, initialDragZoom, currentDragZoom, hover>>
eventVars == <<lastEvent, emitted, tracker, clicked, anchorAfterLeave, prevMode, nEvents>>
vars == <<containerVars, handlerVars, eventVars>>

----------------------------------------------------------------------------
(* Bounds of the model *)

MaxRows == 2        \* rows of a container whose axis slots vary freely
MaxSlots == 3       \* children of one row
MaxChildren == 3    \* children of a container whose rows vary in visibility
MaxEvents == 4      \* pointer and wheel events of one run

----------------------------------------------------------------------------
(* Values *)

\* null / undefined / an absent optional value; a present value v is <<v>>
Null == <<>>
Some(v) == <<v>>
Val(o) == o[1]

Max(a, b) == IF a >= b THEN a ELSE b
Min(a, b) == IF a <= b THEN a ELSE b
Abs(a) == IF a >= 0 THEN a ELSE -a

RECURSIVE SumSeq(_)
SumSeq(s) == IF s = <<>> THEN 0 ELSE s[1] + SumSeq(Tail(s))

\* _.reduce(list, (a, b) => a + b, 0)
Reduce(list) == SumSeq(list)

\* Truncation toward zero of a / b (b # 0): what new Date(x) and parseInt
\* do to a fraction.
TruncDiv(a, b) ==
    IF (a >= 0) = (b > 0) THEN Abs(a) \div Abs(b) ELSE -(Abs(a) \div Abs(b))

SeqsUpTo(S, n) == UNION {[1..k -> S] : k \in 0..n}

----------------------------------------------------------------------------
(* The children of a ChartRow *)

Child(t, hw, w, hv, v) ==
    [type |-> t, hasWidth |-> hw, width |-> w, hasVisible |-> hv, visible |-> v]

ChartsChild == Child("Charts", FALSE, 0, FALSE, TRUE)
BrushChild == Child("Brush", FALSE, 0, FALSE, TRUE)
NullChild == Child("null", FALSE, 0, FALSE, TRUE)
Axis40 == Child("YAxis", TRUE, 40, FALSE, TRUE)      \* width 40, no visible prop
Axis25 == Child("YAxis", TRUE, 25, TRUE, TRUE)
Axis30 == Child("YAxis", TRUE, 30, TRUE, TRUE)
AxisHidden == Child("YAxis", TRUE, 40, TRUE, FALSE)  \* visible={false}
AxisNoWidth == Child("YAxis", FALSE, 0, TRUE, TRUE)  \* no width prop
AxisZero == Child("YAxis", TRUE, 0, TRUE, TRUE)      \* width={0}

AxisChildren == {Axis40, Axis25, Axis30, AxisHidden, AxisNoWidth, AxisZero}
RowChildren == {ChartsChild, BrushChild, NullChild} \cup AxisChildren
CommonRowChildren == {ChartsChild, BrushChild, Axis40, Axis25, Axis30, AxisHidden}

\* A child of the container: a ChartRow or something else
RowOf(kids, vis, h) ==
    [type |-> "ChartRow", visible |-> vis, height |-> h, children |-> kids]
OtherChild == [type |-> "Other", visible |-> TRUE, height |-> 0, children |-> <<>>]
IsChartRow(child) == child.type = "ChartRow"

IsCharts(child) == child.type = "Charts"
IsBrush(child) == child.type \in {"Brush", "MultiBrush"}

----------------------------------------------------------------------------
(* render, first pass: the axis column widths (lines 141-206) *)

\* lines 153-166: the number of <Charts> tags of a row
countCharts(row) ==
    Cardinality({k \in DOMAIN row.children : IsCharts(row.children[k])})

\* lines 153-166: the columns left of the first <Charts> tag
countLeft(row) ==
    Cardinality({k \in DOMAIN row.children :
        /\ row.children[k] # NullChild
        /\ ~IsCharts(row.children[k])
        /\ ~IsBrush(row.children[k])
        /\ \A j \in 1..(k - 1) : ~IsCharts(row.children[j])})

\* line 168: the row is malformed
RowThrows(row) == countCharts(row) # 1

\* line 188: Number(child.props.width) || 40
DeclaredWidthMutant(child) == IF child.hasWidth THEN child.width ELSE 0
DeclaredWidth(child) ==
    IF child.hasWidth /\ child.width # 0 THEN child.width ELSE 40

\* lines 188-190: the width a column has to hold for this axis
AxisWidthMutant(child) == DeclaredWidth(child)
AxisWidth(child) ==
    LET width == DeclaredWidth(child)
        visible == (~child.hasVisible) \/ child.visible
    IN  IF ~visible THEN 0 ELSE width

\* A JavaScript array of numbers as a sequence: index pos is element pos + 1.
\* A hole reads as undefined, which is falsy like the 0 that stands for it.
ArrayGet(a, pos) == IF pos + 1 \in DOMAIN a THEN a[pos + 1] ELSE 0
ArraySet(a, pos, v) ==
    [k \in 1..Max(Len(a), pos + 1) |->
        IF k = pos + 1 THEN v ELSE IF k <= Len(a) THEN a[k] ELSE 0]

\* lines 193-195 and 198-200: widths[pos] ? Math.max(width, widths[pos]) : width
ColumnMutant(widths, pos, width) == ArraySet(widths, pos, width)
Column(widths, pos, width) ==
    ArraySet(widths, pos,
        IF ArrayGet(widths, pos) # 0
        THEN Max(width, ArrayGet(widths, pos))
        ELSE width)

\* lines 176-204: the second walk over the children of one row
RECURSIVE RowWalk(_, _, _, _, _)
RowWalk(kids, k, align, pos, acc) ==
    IF k > Len(kids) THEN acc
    ELSE LET child == kids[k] IN
         IF child = NullChild THEN RowWalk(kids, k + 1, align, pos, acc)
         ELSE IF IsCharts(child) THEN RowWalk(kids, k + 1, "right", 0, acc)
         ELSE IF IsBrush(child) THEN RowWalk(kids, k + 1, align, pos, acc)
         ELSE IF align = "left"
              THEN RowWalk(kids, k + 1, align, pos - 1,
                      [acc EXCEPT !.left = Column(acc.left, pos, AxisWidth(child))])
              ELSE RowWalk(kids, k + 1, align, pos + 1,
                      [acc EXCEPT !.right = Column(acc.right, pos, AxisWidth(child))])

\* lines 141-206: all rows in order; invariant(false, ...) of line 170 ends
\* the walk (and render) at the first malformed row
RECURSIVE AxisPass(_, _, _)
AxisPass(kids, i, acc) ==
    IF i > Len(kids) THEN acc
    ELSE IF ~IsChartRow(kids[i]) THEN AxisPass(kids, i + 1, acc)
    ELSE IF RowThrows(kids[i]) THEN [acc EXCEPT !.threw = TRUE, !.row = i]
    ELSE AxisPass(kids, i + 1,
            RowWalk(kids[i].children, 1, "left", countLeft(kids[i]) - 1, acc))

AxisWidths(kids) ==
    AxisPass(kids, 1, [threw |-> FALSE, row |-> 0, left |-> <<>>, right |-> <<>>])

----------------------------------------------------------------------------
(* The time scale: scaleTime / scaleUtc of d3-scale over                   *)
(* domain = timeRange.toJSON(), range = [0, timeAxisWidth] (lines 225-231) *)

RECURSIVE GCD(_, _)
GCD(a, b) == IF b = 0 THEN a ELSE GCD(b, a % b)

\* A fraction in lowest terms with a positive denominator
Frac(n, d) ==
    LET g == GCD(Abs(n), Abs(d))
    IN  IF d > 0 THEN <<n \div g, d \div g>> ELSE <<(-n) \div g, (-d) \div g>>
FracLeq(p, q) == p[1] * q[2] <= q[1] * p[2]
FracEq(p, q) == Frac(p[1], p[2]) = Frac(q[1], q[2])

\* Truncation toward zero of a * b / c, with the common factors taken out
\* before multiplying
MulDivTrunc(a, b, c) ==
    LET g1 == GCD(Abs(a), Abs(c))
        a1 == a \div g1
        c1 == c \div g1
        g2 == GCD(Abs(b), Abs(c1))
    IN  TruncDiv(a1 * (b \div g2), c1 \div g2)

makeScaleMutant(timeRange, timeAxisWidth, utc) ==
    [domain |-> timeRange, range |-> <<0, timeAxisWidth + 1>>, utc |-> utc]
makeScale(timeRange, timeAxisWidth, utc) ==
    [domain |-> timeRange, range |-> <<0, timeAxisWidth>>, utc |-> utc]

\* scale(t): the pixel of time t.  Over a domain of zero length d3-scale
\* maps every time to the start of the range.
ScaleApply(scale, t) ==
    LET d0 == scale.domain[1]
        d1 == scale.domain[2]
        r0 == scale.range[1]
        r1 == scale.range[2]
    IN  IF d1 = d0 THEN <<r0, 1>>
        ELSE Frac((t - d0) * (r1 - r0) + r0 * (d1 - d0), d1 - d0)

\* scale.invert(x).getTime(): the time of pixel x = <<n, d>>; new Date(...)
\* truncates to whole milliseconds.  Over a range of zero length every pixel
\* is the start of the domain.
ScaleInvertFrac(scale, x) ==
    LET d0 == scale.domain[1]
        d1 == scale.domain[2]
        r0 == scale.range[1]
        r1 == scale.range[2]
    IN  IF r1 = r0 THEN d0
        ELSE d0 + MulDivTrunc(x[1] - r0 * x[2], d1 - d0, x[2] * (r1 - r0))

ScaleInvert(scale, x) == ScaleInvertFrac(scale, <<x, 1>>)

----------------------------------------------------------------------------
(* render, second pass: the rows (lines 233-275) *)

\* parseInt(child.props.height, 10) of a height kept in half pixels
ParseIntMutant(h) == TruncDiv(h + 1, 2)
ParseInt(h) == TruncDiv(h, 2)

\* line 240 and 261: the row is rendered
IsVisibleMutant(child) == TRUE
IsVisible(child) == child.visible

\* lines 235-272.  transforms holds the y of the transform line 260 computes
\* for every ChartRow; chartRows holds the rows line 262 pushes.
RECURSIVE RowPass(_, _, _, _)
RowPass(kids, i, xOffset, acc) ==
    IF i >= Len(kids) THEN acc
    ELSE LET child == kids[i + 1] IN
         IF ~IsChartRow(child) THEN RowPass(kids, i + 1, xOffset, acc)
         ELSE LET firstRow == (i = 0)
                  placed == [key |-> i, x |-> xOffset, y |-> acc.yPosition,
                             trackerShowTime |-> firstRow]
                  seen == [acc EXCEPT !.transforms = Append(@, placed)]
              IN  IF IsVisible(child)
                  THEN RowPass(kids, i + 1, xOffset,
                          [seen EXCEPT !.chartRows = Append(@, placed),
                                       !.yPosition = @ + ParseInt(child.height)])
                  ELSE RowPass(kids, i + 1, xOffset, seen)

Rows(kids, xOffset) ==
    RowPass(kids, 0, xOffset, [yPosition |-> 0, chartRows |-> <<>>, transforms |-> <<>>])

----------------------------------------------------------------------------
(* render (lines 120-404) *)

TimeAxisHeight == 35

\* line 122: paddingLeft = padding, paddingRight = padding by default
PaddingLeft(p) == IF p.hasPaddingLeft THEN p.paddingLeft ELSE p.padding
PaddingRight(p) == IF p.hasPaddingRight THEN p.paddingRight ELSE p.padding

\* lines 218-219
timeAxisWidth(p, lw, rw) == p.width - lw - rw - PaddingLeft(p) - PaddingRight(p)

NotRendered ==
    [status |-> "none", error |-> "", leftAxisWidths |-> <<>>,
     rightAxisWidths |-> <<>>, chartRows |-> <<>>, transforms |-> <<>>,
     chartsHeight |-> 0, chartsWidth |-> 0, svgWidth |-> 0, svgHeight |-> 0]

Threw(msg) == [NotRendered EXCEPT !.status = "threw", !.error = msg]

\* line 168: the rows render accepts
WellFormedMutant(kids) == TRUE
WellFormed(kids) == ~AxisWidths(kids).threw

\* line 221: the time range render accepts
HasTimeRangeMutant(p) == TRUE
HasTimeRange(p) == p.timeRange # Null

RenderOf(p, kids) ==
    LET axes == AxisWidths(kids)
        lw == Reduce(axes.left)
        rw == Reduce(axes.right)
        w == timeAxisWidth(p, lw, rw)
        rows == Rows(kids, -lw - PaddingLeft(p))
    IN  IF ~WellFormed(kids)
        THEN /\ out' = Threw("ChartRow should have one and only one <Charts> tag within it")
             /\ UNCHANGED <<leftWidth, rightWidth, timeScale>>
        ELSE /\ leftWidth' = Some(lw)
             /\ rightWidth' = Some(rw)
             /\ IF ~HasTimeRange(p)
                THEN /\ out' = Threw("Invalid timerange passed to ChartContainer")
                     /\ UNCHANGED timeScale
                ELSE /\ timeScale' = Some(makeScale(p.timeRange, w, p.utc))
                     /\ out' = [status |-> "ok", error |-> "",
                                leftAxisWidths |-> axes.left,
                                rightAxisWidths |-> axes.right,
                                chartRows |-> rows.chartRows,
                                transforms |-> rows.transforms,
                                chartsHeight |-> rows.yPosition,
                                chartsWidth |-> w,
                                svgWidth |-> p.width,
                                svgHeight |-> rows.yPosition + TimeAxisHeight]

\* The container renders with its current props
Render == RenderOf(props, children)

----------------------------------------------------------------------------
(* The containers of the model *)

\* ChartContainer.defaultProps (lines 625-634) over a time range
DefaultProps(timeRange) ==
    [width |-> 800, padding |-> 0,
     hasPaddingLeft |-> FALSE, paddingLeft |-> 0,
     hasPaddingRight |-> FALSE, paddingRight |-> 0,
     timeRange |-> timeRange, utc |-> FALSE,
     minTime |-> Null, maxTime |-> Null, minDuration |-> Null,
     enablePanZoom |-> FALSE, enableDragZoom |-> FALSE,
     hasOnTrackerChanged |-> TRUE, hasOnTimeRangeChanged |-> TRUE]

\* Heights in half pixels: 100px, 30.5px and 50.5px
RowHeights == {200, 61, 101}

ContainerWidths == {0, 60, 95, 96, 800}
Paddings == {0, 10}
TimeRanges == {Null, <<0, 100000>>, <<100000, 0>>, <<5, 5>>, <<0, 10>>}

\* The two rows of the worked example: left 40 | plot | right 30  and
\* left 25, left 40 | plot
ExampleRows ==
    << RowOf(<<Axis40, ChartsChild, Axis30>>, TRUE, 200),
       RowOf(<<Axis25, Axis40, ChartsChild>>, TRUE, 200) >>

SimpleRows == << RowOf(<<Axis40, ChartsChild>>, TRUE, 200) >>

HandlerInit ==
    /\ isDragging = FALSE
    /\ isPanning = FALSE
    /\ initialPanBegin = Null
    /\ initialPanEnd = Null
    /\ initialPanPosition = Null
    /\ initialDragZoom = Null
    /\ currentDragZoom = Null
    /\ hover = Null
    /\ lastEvent = "none"
    /\ emitted = Null
    /\ tracker = <<"none">>
    /\ clicked = FALSE
    /\ anchorAfterLeave = FALSE
    /\ prevMode = "Idle"
    /\ nEvents = 0

ContainerInit ==
    /\ leftWidth = Null
    /\ rightWidth = Null
    /\ timeScale = Null
    /\ out = NotRendered

\* Rows whose axis slots vary: up to MaxRows rows of up to MaxSlots children
InitAxes ==
    /\ props = DefaultProps(<<0, 100000>>)
    /\ \/ children \in {s \in SeqsUpTo({RowOf(k, TRUE, 200) :
                                  k \in SeqsUpTo(CommonRowChildren, MaxSlots)}, MaxRows) :
                        s # <<>>}
       \/ children \in {<<RowOf(k, TRUE, 200)>> : k \in SeqsUpTo(RowChildren, MaxSlots)}

\* Containers whose geometry and time range vary
InitGeometry ==
    /\ children \in {ExampleRows, SimpleRows}
    /\ \E w \in ContainerWidths, pad \in Paddings, pl \in {Null, Some(5)},
          pr \in {Null, Some(5)}, tr \in TimeRanges, utc \in BOOLEAN :
          props = [DefaultProps(tr) EXCEPT
                     !.width = w, !.padding = pad, !.utc = utc,
                     !.hasPaddingLeft = (pl # Null),
                     !.paddingLeft = IF pl # Null THEN Val(pl) ELSE 0,
                     !.hasPaddingRight = (pr # Null),
                     !.paddingRight = IF pr # Null THEN Val(pr) ELSE 0]

\* Containers whose rows vary in visibility and height, among other children
InitRows ==
    /\ props = DefaultProps(<<0, 100000>>)
    /\ children \in SeqsUpTo(
          {OtherChild, RowOf(<<>>, TRUE, 200)}
          \cup {RowOf(k, v, h) : k \in {<<Axis40, ChartsChild>>, <<ChartsChild>>},
                                 v \in BOOLEAN, h \in RowHeights},
          MaxChildren)

InitLayout ==
    /\ HandlerInit
    /\ ContainerInit
    /\ (InitAxes \/ InitGeometry \/ InitRows)

NextLayout == Render /\ UNCHANGED <<props, children, handlerVars, eventVars>>

SpecLayout == InitLayout /\ [][NextLayout]_vars

\* render returned an element tree
Rendered == out.status = "ok"

----------------------------------------------------------------------------
(* The callbacks the container hands to the EventHandler *)

\* lines 349-363: the props of the <EventHandler> element
HandlerPropsMutant ==
    [width |-> out.chartsWidth, height |-> out.chartsHeight + TimeAxisHeight,
     scale |-> Val(timeScale),
     enablePanZoom |-> props.enablePanZoom, enableDragZoom |-> props.enableDragZoom,
     minDuration |-> Null, minTime |-> Null, maxTime |-> Null]
HandlerPropsWidthMutant ==
    [width |-> props.width, height |-> out.chartsHeight + TimeAxisHeight,
     scale |-> Val(timeScale),
     enablePanZoom |-> props.enablePanZoom, enableDragZoom |-> props.enableDragZoom,
     minDuration |-> props.minDuration, minTime |-> props.minTime,
     maxTime |-> props.maxTime]
HandlerProps ==
    [width |-> out.chartsWidth, height |-> out.chartsHeight + TimeAxisHeight,
     scale |-> Val(timeScale),
     enablePanZoom |-> props.enablePanZoom, enableDragZoom |-> props.enableDragZoom,
     minDuration |-> props.minDuration, minTime |-> props.minTime,
     maxTime |-> props.maxTime]

\* lines 71-80: what onTrackerChanged is called with, <<"none">> when it is not
handleTrackerChanged(t) == IF props.hasOnTrackerChanged THEN t ELSE <<"none">>

\* A pixel position moved right by k whole pixels
FracPlus(f, k) == Frac(f[1] + k * f[2], f[2])

\* lines 71-80: the function onTrackerChanged is called with as its second
\* argument, t => this.timeScale(t) + this.leftWidth
handleTrackerChanged_position(t) ==
    FracPlus(ScaleApply(Val(timeScale), t), Val(leftWidth))

\* lines 277-302: the x, relative to the whole chart, at which render draws the
\* tracker marker of time t: the TimeMarker puts it at timeScale(t) inside a
\* group translated by leftWidth + paddingLeft
TrackerMarkerX(t) ==
    FracPlus(ScaleApply(Val(timeScale), t), Val(leftWidth) + PaddingLeft(props))

\* lines 93-98
handleMouseMove(x, y) == handleTrackerChanged(<<"time", ScaleInvert(Val(timeScale), x)>>)

\* lines 100-102
handleMouseOutMutant == <<"none">>
handleMouseOut == handleTrackerChanged(<<"null">>)

\* lines 104-108
handleBackgroundClick == TRUE

\* lines 110-114: what onTimeRangeChanged is called with, Null when it is not
handleZoom(timerange) == IF props.hasOnTimeRangeChanged THEN Some(timerange) ELSE Null

----------------------------------------------------------------------------
(* The EventHandler: the interaction state machine *)

DragThreshold == 3

Mode ==
    IF isPanning THEN "Panning"
    ELSE IF isDragging THEN "DraggingZoomBox"
    ELSE IF hover # Null THEN "Hovering"
    ELSE "Idle"

Ordered(a, b) == <<Min(a, b), Max(a, b)>>
Duration(range) == range[2] - range[1]

\* The candidate translated as a whole so that it stays within the bounds
\* that are configured
ClampToBounds(range, minTime, maxTime) ==
    LET low == IF minTime # Null /\ range[1] < Val(minTime)
               THEN <<Val(minTime), Val(minTime) + Duration(range)>>
               ELSE range
    IN  IF maxTime # Null /\ low[2] > Val(maxTime)
        THEN <<Val(maxTime) - Duration(range), Val(maxTime)>>
        ELSE low

\* Panning + pointerMove: the anchor range shifted by
\* invert(anchorX) - invert(currentX), then clamped
PanRange(hp, anchorX, anchorBegin, anchorEnd, x) ==
    LET shift == ScaleInvert(hp.scale, anchorX) - ScaleInvert(hp.scale, x)
    IN  ClampToBounds(<<anchorBegin + shift, anchorEnd + shift>>, hp.minTime, hp.maxTime)

\* DraggingZoomBox: the range between invert(anchorX) and invert(currentX)
ZoomBoxRange(hp, anchorX, x) ==
    Ordered(ScaleInvert(hp.scale, anchorX), ScaleInvert(hp.scale, x))

\* pointerUp commits the zoom box
ZoomBoxCommits(hp, anchorX, x) ==
    /\ Abs(x - anchorX) > DragThreshold
    /\ hp.minDuration # Null =>
          Duration(ZoomBoxRange(hp, anchorX, x)) >= Val(hp.minDuration)

\* The duration a wheel zoom asks for: 1.1 per notch, in on a negative
\* delta, out on a positive one
WheelScaled(duration, deltaY) ==
    IF deltaY < 0 THEN TruncDiv(duration * 10, 11) ELSE TruncDiv(duration * 11, 10)

\* ... clamped to the configured bounds and to >= minDuration (and >= 0)
WheelDuration(hp, duration, deltaY) ==
    LET asked == WheelScaled(duration, deltaY)
        capped == IF hp.minTime # Null /\ hp.maxTime # Null
                  THEN Min(asked, Val(hp.maxTime) - Val(hp.minTime))
                  ELSE asked
    IN  Max(capped, IF hp.minDuration # Null THEN Max(Val(hp.minDuration), 0) ELSE 0)

\* wheel: the range of that duration in which the time under the cursor
\* stays at the pixel of the cursor
WheelRange(hp, x, deltaY) ==
    LET center == ScaleInvert(hp.scale, x)
        duration == WheelDuration(hp, Duration(hp.scale.domain), deltaY)
        begin == IF hp.width = 0 THEN center
                 ELSE center - MulDivTrunc(x, duration, hp.width)
    IN  <<begin, begin + duration>>

Handled(event, range, time, click) ==
    /\ lastEvent' = event
    /\ emitted' = range
    /\ tracker' = time
    /\ clicked' = click
    /\ prevMode' = Mode
    /\ nEvents' = nEvents + 1

\* A pointerDown that arrives while a drag is under way is ignored
DragUnderWayMutant == FALSE
DragUnderWay == isPanning \/ isDragging

EventHandler_handleMouseDown(x, y, shiftKey) ==
    /\ Rendered
    /\ nEvents < MaxEvents
    /\ IF DragUnderWay
       THEN UNCHANGED <<handlerVars, anchorAfterLeave>>
       ELSE IF ~shiftKey /\ HandlerProps.enablePanZoom
       THEN /\ isPanning' = TRUE
            /\ initialPanBegin' = Some(HandlerProps.scale.domain[1])
            /\ initialPanEnd' = Some(HandlerProps.scale.domain[2])
            /\ initialPanPosition' = <<x, y>>
            /\ hover' = Null
            /\ anchorAfterLeave' = TRUE
            /\ UNCHANGED <<isDragging, initialDragZoom, currentDragZoom>>
       ELSE IF shiftKey /\ HandlerProps.enableDragZoom
       THEN /\ isDragging' = TRUE
            /\ initialDragZoom' = Some(x)
            /\ currentDragZoom' = Null
            /\ hover' = Null
            /\ anchorAfterLeave' = TRUE
            /\ UNCHANGED <<isPanning, initialPanBegin, initialPanEnd, initialPanPosition>>
       ELSE UNCHANGED <<handlerVars, anchorAfterLeave>>
    /\ Handled("mouseDown", Null, <<"none">>, FALSE)
    /\ UNCHANGED containerVars

EventHandler_handleMouseMove(x, y) ==
    /\ Rendered
    /\ nEvents < MaxEvents
    /\ IF isPanning
       THEN /\ Handled("mouseMove",
                   handleZoom(PanRange(HandlerProps, initialPanPosition[1],
                                       Val(initialPanBegin), Val(initialPanEnd), x)),
                   <<"none">>, FALSE)
            /\ UNCHANGED handlerVars
       ELSE IF isDragging
       THEN /\ currentDragZoom' = Some(ZoomBoxRange(HandlerProps, Val(initialDragZoom), x))
            /\ Handled("mouseMove", Null, <<"none">>, FALSE)
            /\ UNCHANGED <<isDragging, isPanning, initialPanBegin, initialPanEnd,
                           initialPanPosition, initialDragZoom, hover>>
       ELSE /\ hover' = Some(<<x, y>>)
            /\ Handled("mouseMove", Null, handleMouseMove(x, y), FALSE)
            /\ UNCHANGED <<isDragging, isPanning, initialPanBegin, initialPanEnd,
                           initialPanPosition, initialDragZoom, currentDragZoom>>
    /\ UNCHANGED <<containerVars, anchorAfterLeave>>

Idle ==
    /\ isDragging' = FALSE
    /\ isPanning' = FALSE
    /\ initialPanBegin' = Null
    /\ initialPanEnd' = Null
    /\ initialPanPosition' = Null
    /\ initialDragZoom' = Null
    /\ currentDragZoom' = Null
    /\ hover' = Null

EventHandler_handleMouseUp(x, y) ==
    /\ Rendered
    /\ nEvents < MaxEvents
    /\ IF isDragging
       THEN IF ZoomBoxCommits(HandlerProps, Val(initialDragZoom), x)
            THEN Handled("mouseUp",
                    handleZoom(ZoomBoxRange(HandlerProps, Val(initialDragZoom), x)),
                    <<"none">>, FALSE)
            ELSE Handled("mouseUp", Null, <<"none">>,
                    x = Val(initialDragZoom) /\ handleBackgroundClick)
       ELSE IF isPanning
       THEN Handled("mouseUp", Null, <<"none">>,
               x = initialPanPosition[1] /\ handleBackgroundClick)
       ELSE Handled("mouseUp", Null, <<"none">>, FALSE)
    /\ Idle
    /\ UNCHANGED <<containerVars, anchorAfterLeave>>

EventHandler_handleMouseOut ==
    /\ Rendered
    /\ nEvents < MaxEvents
    /\ Idle
    /\ anchorAfterLeave' = FALSE
    /\ Handled("mouseOut", Null, handleMouseOut, FALSE)
    /\ UNCHANGED containerVars

EventHandler_handleScrollWheel(x, deltaY) ==
    /\ Rendered
    /\ nEvents < MaxEvents
    /\ IF isPanning \/ isDragging
       THEN Handled("wheel", Null, <<"none">>, FALSE)
       ELSE Handled("wheel", handleZoom(WheelRange(HandlerProps, x, deltaY)),
               <<"none">>, FALSE)
    /\ UNCHANGED <<containerVars, handlerVars, anchorAfterLeave>>

EventHandler_handleMouseClick ==
    /\ Rendered
    /\ nEvents < MaxEvents
    /\ Handled("click", Null, <<"none">>,
          ~isPanning /\ ~isDragging /\ handleBackgroundClick)
    /\ UNCHANGED <<containerVars, handlerVars, anchorAfterLeave>>

\* The caller feeds the time range it was notified of back in as the
\* timeRange prop, and the container renders again
ApplyTimeRange ==
    /\ emitted # Null
    /\ props' = [props EXCEPT !.timeRange = Val(emitted)]
    /\ RenderOf(props', children)
    /\ emitted' = Null
    /\ tracker' = <<"none">>
    /\ clicked' = FALSE
    /\ UNCHANGED <<children, handlerVars, lastEvent, anchorAfterLeave, prevMode, nEvents>>

----------------------------------------------------------------------------
(* The interactive container *)

PointerXs == {100, 102, 150}
PointerYs == {10}
WheelDeltas == {-1, 1}

InteractionRanges == {<<0, 100000>>, <<0, 10>>, <<100000, 0>>}
MinDurations == {Null, Some(50000), Some(5000)}
\* <<minTime, maxTime>>
TimeBounds == {<<Null, Null>>, <<Some(0), Some(100000)>>, <<Some(0), Some(60000)>>,
               <<Some(0), Null>>}
\* <<enablePanZoom, enableDragZoom>>
Enabled == {<<TRUE, TRUE>>, <<FALSE, FALSE>>}

Init ==
    /\ HandlerInit
    /\ ContainerInit
    /\ children = ExampleRows
    /\ \E tr \in InteractionRanges, md \in MinDurations, tb \in TimeBounds,
          en \in Enabled :
          props = [DefaultProps(tr) EXCEPT
                     !.minDuration = md, !.minTime = tb[1], !.maxTime = tb[2],
                     !.enablePanZoom = en[1], !.enableDragZoom = en[2]]

Mount == Render /\ UNCHANGED <<props, children, handlerVars, eventVars>>

Next ==
    \/ Mount
    \/ \E x \in PointerXs, y \in PointerYs, shiftKey \in BOOLEAN :
          EventHandler_handleMouseDown(x, y, shiftKey)
    \/ \E x \in PointerXs, y \in PointerYs : EventHandler_handleMouseMove(x, y)
    \/ \E x \in PointerXs, y \in PointerYs : EventHandler_handleMouseUp(x, y)
    \/ EventHandler_handleMouseOut
    \/ \E x \in PointerXs, deltaY \in WheelDeltas : EventHandler_handleScrollWheel(x, deltaY)
    \/ EventHandler_handleMouseClick
    \/ ApplyTimeRange

Spec == Init /\ [][Next]_vars

----------------------------------------------------------------------------
(* Properties of a layout pass *)

RowIndices == {i \in DOMAIN children : IsChartRow(children[i])}

IsAxis(child) == child # NullChild /\ ~IsCharts(child) /\ ~IsBrush(child)
PlotIndex(row) == CHOOSE k \in DOMAIN row.children : IsCharts(row.children[k])
LeftSlots(row) == SelectSeq(SubSeq(row.children, 1, PlotIndex(row) - 1), IsAxis)
RightSlots(row) ==
    SelectSeq(SubSeq(row.children, PlotIndex(row) + 1, Len(row.children)), IsAxis)

\* The effective width of the slot of a row at distance pos from its plot
\* slot, 0 when the row has no slot there
SlotWidthAt(row, side, pos) ==
    LET slots == IF side = "left" THEN LeftSlots(row) ELSE RightSlots(row)
    IN  IF pos >= Len(slots) THEN 0
        ELSE IF side = "left" THEN AxisWidth(slots[Len(slots) - pos])
        ELSE AxisWidth(slots[pos + 1])

MaxOf(S) == CHOOSE m \in S : \A x \in S : x <= m

\* The column widths as the position-wise maximum over the rows
ColumnMaxima(kids, side) ==
    LET rows == {i \in DOMAIN kids : IsChartRow(kids[i])}
        n == MaxOf({0} \cup {Len(IF side = "left" THEN LeftSlots(kids[i])
                                                    ELSE RightSlots(kids[i])) : i \in rows})
    IN  [k \in 1..n |-> MaxOf({SlotWidthAt(kids[i], side, k - 1) : i \in rows})]

Reordered(kids, perm) == [k \in DOMAIN kids |-> kids[perm[k]]]

\* C1: after a layout pass over rows that each hold exactly one plot slot,
\* leftAxisWidths[pos] (rightAxisWidths[pos]) is the maximum over the rows of
\* the effective width of the left (right) slot at distance pos from the plot,
\* leftWidth and rightWidth are the sums of these arrays, and laying out the
\* rows in any other order gives the same arrays.
C1_ColumnWidths ==
    Rendered =>
        /\ out.leftAxisWidths = ColumnMaxima(children, "left")
        /\ out.rightAxisWidths = ColumnMaxima(children, "right")
        /\ leftWidth = Some(SumSeq(ColumnMaxima(children, "left")))
        /\ rightWidth = Some(SumSeq(ColumnMaxima(children, "right")))
        /\ \A perm \in Permutations(DOMAIN children) :
              /\ AxisWidths(Reordered(children, perm)).left = out.leftAxisWidths
              /\ AxisWidths(Reordered(children, perm)).right = out.rightAxisWidths

\* The worked example: [left 40, plot, right 30] and [left 25, left 40, plot]
C1_Witness ==
    /\ Rendered
    /\ children = ExampleRows
    /\ out.leftAxisWidths = <<40, 25>>
    /\ out.rightAxisWidths = <<30>>
    /\ leftWidth = Some(65)
    /\ rightWidth = Some(30)

SomeRowMalformed == \E i \in RowIndices : RowThrows(children[i])
SomeRowWellFormed == \E i \in RowIndices : ~RowThrows(children[i])
WellFormedRows == SelectSeq(children, LAMBDA c : IsChartRow(c) /\ ~RowThrows(c))

PixelWidth ==
    props.width - Val(leftWidth) - Val(rightWidth)
        - PaddingLeft(props) - PaddingRight(props)

\* C3 as claimed: a layout pass whose plot pixel width is <= 0 reports an
\* error instead of building a time scale over that range.
C3_DegenerateGeometryReported ==
    (out.status # "none" /\ ~SomeRowMalformed /\ props.timeRange # Null
        /\ PixelWidth <= 0) =>
            out.status = "threw" /\ timeScale = Null

BadTimeRange ==
    props.timeRange = Null \/ props.timeRange[1] > props.timeRange[2]

\* C4 as claimed: a layout pass over an absent time range or one with
\* begin > end fails and produces no time scale and no rows.
C4_InvalidTimeRangeFails ==
    (out.status # "none" /\ BadTimeRange) =>
        out.status = "threw" /\ timeScale = Null /\ out.chartRows = <<>>

\* The width C5 claims for an axis slot
ClaimedWidth(child) ==
    IF child.hasVisible /\ ~child.visible THEN 0
    ELSE IF child.hasWidth THEN child.width
    ELSE 40

\* C5 as claimed: a slot contributes 0 when invisible, its declared width when
\* visible and declared, 40 only when no width is declared (stated on a
\* container of one row, where each column holds one slot).
C5_SlotWidth ==
    (Rendered /\ Len(children) = 1) =>
        LET row == children[1] IN
        /\ \A k \in DOMAIN LeftSlots(row) :
              out.leftAxisWidths[Len(LeftSlots(row)) - k + 1] = ClaimedWidth(LeftSlots(row)[k])
        /\ \A k \in DOMAIN RightSlots(row) :
              out.rightAxisWidths[k] = ClaimedWidth(RightSlots(row)[k])

C5_FailingInput ==
    /\ Rendered
    /\ children = <<RowOf(<<AxisZero, ChartsChild>>, TRUE, 200)>>
    /\ out.leftAxisWidths = <<40>>

\* The sum of f over the rows of the container declared before child k that
\* are visible
VisibleBefore(kids, k, f(_)) ==
    SumSeq([i \in 1..Len(kids) |->
        IF i < k /\ IsChartRow(kids[i]) /\ kids[i].visible THEN f(kids[i]) ELSE 0])

HalfPixels(row) == row.height
WholePixels(row) == row.height \div 2

\* One entry per row, in declaration order
OneOffsetPerRow ==
    /\ Len(out.transforms) = Cardinality(RowIndices)
    /\ {out.transforms[j].key + 1 : j \in DOMAIN out.transforms} = RowIndices
    /\ \A j \in 1..(Len(out.transforms) - 1) :
          out.transforms[j].key < out.transforms[j + 1].key

\* C6 as claimed: the row offsets are the running sums, from 0 and in
\* declaration order, of the heights of the visible rows, with an entry for
\* every row, and the charts height is the sum of the heights of the visible
\* rows (heights and sums compared in half pixels).
C6_OffsetsSumHeights ==
    Rendered =>
        /\ OneOffsetPerRow
        /\ \A j \in DOMAIN out.transforms :
              2 * out.transforms[j].y =
                  VisibleBefore(children, out.transforms[j].key + 1, HalfPixels)
        /\ 2 * out.chartsHeight =
              VisibleBefore(children, Len(children) + 1, HalfPixels)

\* C6 amended: the same with every height truncated to whole pixels before it
\* is added; only the visible rows are output.
C6_OffsetsSumWholePixels ==
    Rendered =>
        /\ OneOffsetPerRow
        /\ \A j \in DOMAIN out.transforms :
              out.transforms[j].y =
                  VisibleBefore(children, out.transforms[j].key + 1, WholePixels)
        /\ out.chartsHeight = VisibleBefore(children, Len(children) + 1, WholePixels)
        /\ out.chartRows =
              SelectSeq(out.transforms, LAMBDA e : children[e.key + 1].visible)

\* Rows of 30.5px (visible), 100px (invisible) and 50.5px (visible)
C6_Witness ==
    /\ Rendered
    /\ children = <<RowOf(<<ChartsChild>>, TRUE, 61), RowOf(<<ChartsChild>>, FALSE, 200),
                    RowOf(<<ChartsChild>>, TRUE, 101)>>
    /\ Len(out.transforms) = 3
    /\ out.transforms[2].y = 30 /\ out.transforms[3].y = 30
    /\ out.chartsHeight = 80
    /\ Len(out.chartRows) = 2

\* Times of [begin, end] the scale is tried on
SampleTimes(b, e) ==
    {b, b + (e - b) \div 4, (b + e) \div 2, e - (e - b) \div 4, e}

\* begin maps to 0 and end to width, the pixel of t is (t - begin) / (end -
\* begin) of the width, pixels do not decrease with time, and the time of the
\* pixel of t is t
ScaleIsLinear(scale, b, e, width) ==
    /\ FracEq(ScaleApply(scale, b), <<0, 1>>)
    /\ FracEq(ScaleApply(scale, e), <<width, 1>>)
    /\ \A t \in SampleTimes(b, e) :
          /\ ScaleApply(scale, t) = Frac((t - b) * width, e - b)
          /\ ScaleInvertFrac(scale, ScaleApply(scale, t)) = t
          /\ \A u \in SampleTimes(b, e) :
                t <= u => FracLeq(ScaleApply(scale, t), ScaleApply(scale, u))

\* C7 as claimed: for every time range with begin <= end and plot pixel width
\* > 0 the time scale maps begin to 0, end to the pixel width, is monotonic
\* and linear in between, and inverting the pixel of t returns t.
C7_ScaleLinearClosed ==
    (Rendered /\ props.timeRange[1] <= props.timeRange[2] /\ PixelWidth > 0) =>
        ScaleIsLinear(Val(timeScale), props.timeRange[1], props.timeRange[2], PixelWidth)

\* C7 amended: the same for every time range with begin < end.
C7_ScaleLinear ==
    (Rendered /\ props.timeRange[1] < props.timeRange[2] /\ PixelWidth > 0) =>
        ScaleIsLinear(Val(timeScale), props.timeRange[1], props.timeRange[2], PixelWidth)

\* Width 800, leftWidth 65, rightWidth 30, no padding: 705 pixels, and 50000
\* of [0, 100000] is at pixel 352.5
C7_Witness ==
    /\ Rendered
    /\ props.width = 800 /\ leftWidth = Some(65) /\ rightWidth = Some(30)
    /\ props.timeRange = <<0, 100000>>
    /\ PixelWidth = 705
    /\ FracEq(ScaleApply(Val(timeScale), 50000), <<705, 2>>)
    /\ ScaleInvertFrac(Val(timeScale), <<705, 2>>) = 50000

----------------------------------------------------------------------------
(* Properties of the interaction state machine *)

PanEmitted == lastEvent = "mouseMove" /\ emitted # Null
MinDurationHolds(range) ==
    props.minDuration # Null => Duration(range) >= Val(props.minDuration)

\* C8 as claimed: every time range a transition produces (pan move, zoom-box
\* commit, wheel zoom) has begin <= end and, when minDuration is configured,
\* end - begin >= minDuration.
C8_ProducedRangeValid ==
    emitted # Null =>
        /\ Val(emitted)[1] <= Val(emitted)[2]
        /\ MinDurationHolds(Val(emitted))

\* C8 amended: every time range a zoom-box commit or a wheel zoom produces has
\* begin <= end and, when minDuration is configured, end - begin >=
\* minDuration; a time range a pan move produces has the end - begin of the
\* time range the drag began on, whatever minDuration is.
C8_ZoomRangeValid ==
    emitted # Null =>
        IF PanEmitted
        THEN Duration(Val(emitted)) = Val(initialPanEnd) - Val(initialPanBegin)
        ELSE /\ Val(emitted)[1] <= Val(emitted)[2]
             /\ MinDurationHolds(Val(emitted))

\* A wheel zoom on a 10ms range is clamped to the minDuration of 50000ms
C8_Witness ==
    /\ lastEvent = "wheel"
    /\ emitted # Null
    /\ props.timeRange = <<0, 10>>
    /\ props.minDuration = Some(50000)
    /\ Duration(Val(emitted)) = 50000

AnchorDuration == Val(initialPanEnd) - Val(initialPanBegin)
BoundsConfigured == props.minTime # Null /\ props.maxTime # Null
AboveMinTime(range) == props.minTime # Null => range[1] >= Val(props.minTime)
BelowMaxTime(range) == props.maxTime # Null => range[2] <= Val(props.maxTime)

\* C9 as claimed: a time range a pointerMove emits while panning has the
\* duration of the anchor range, and lies within [minTime, maxTime] when they
\* are configured.
C9_PanKeepsDurationInBounds ==
    PanEmitted =>
        /\ Duration(Val(emitted)) = AnchorDuration
        /\ AboveMinTime(Val(emitted))
        /\ BelowMaxTime(Val(emitted))

\* C9 amended: it has the duration of the anchor range, and it begins at or
\* after minTime and ends at or before maxTime when they are configured,
\* provided the anchor range is not longer than maxTime - minTime when both
\* are.
C9_PanRigid ==
    PanEmitted =>
        /\ Duration(Val(emitted)) = AnchorDuration
        /\ (BoundsConfigured => AnchorDuration <= Val(props.maxTime) - Val(props.minTime))
              => (AboveMinTime(Val(emitted)) /\ BelowMaxTime(Val(emitted)))

\* pointerDown at x = 100 on [0, 100000] over 705 pixels, pointerMove to
\* x = 150: a shift of -7092ms, translated back to stay at or after minTime = 0
C9_Witness ==
    /\ PanEmitted
    /\ isPanning
    /\ initialPanPosition[1] = 100
    /\ initialPanBegin = Some(0) /\ initialPanEnd = Some(100000)
    /\ props.timeRange = <<0, 100000>>
    /\ props.minTime = Some(0) /\ props.maxTime = Some(100000)
    /\ ScaleInvert(Val(timeScale), 100) - ScaleInvert(Val(timeScale), 150) = -7092
    /\ emitted = Some(<<0, 100000>>)

AnchorRecorded ==
    \/ isPanning \/ isDragging
    \/ initialPanBegin # Null \/ initialPanEnd # Null \/ initialPanPosition # Null
    \/ initialDragZoom # Null \/ currentDragZoom # Null

\* C10: from every mode a pointerLeave leads to Idle with the drag anchor and
\* the zoom box cleared, the hover cleared and the tracker notified with
\* null; a drag anchor that is in use was recorded after the last leave.
C10_LeaveResets ==
    /\ lastEvent = "mouseOut" =>
          /\ Mode = "Idle"
          /\ ~AnchorRecorded
          /\ hover = Null
          /\ props.hasOnTrackerChanged => tracker = <<"null">>
    /\ AnchorRecorded => anchorAfterLeave

\* The pointer left while panning
C10_Witness ==
    /\ lastEvent = "mouseOut"
    /\ prevMode = "Panning"
    /\ Mode = "Idle"
    /\ tracker = <<"null">>

\* The time at pixel x once the container has rendered the time range
TimeAtPixelAfter(range, x) ==
    ScaleInvert(makeScale(range, out.chartsWidth, props.utc), x)

WheelZoomed == lastEvent = "wheel" /\ emitted # Null

ZoomBox(x) == ZoomBoxRange(HandlerProps, Val(initialDragZoom), x)

\* C12: while a zoom box is dragged a pointerMove changes only the preview
\* and emits no time range; a time range is emitted only by the pointerUp that
\* ends the drag, and exactly when the pixel delta exceeds the drag threshold
\* and the duration of the box is >= minDuration; after that pointerUp the
\* machine is Idle whether it committed or not.
C12_ZoomBoxCommitsOnRelease ==
    [][isDragging =>
         /\ emitted' # Null => lastEvent' = "mouseUp" /\ nEvents' = nEvents + 1
         /\ \A x \in PointerXs, y \in PointerYs :
               /\ EventHandler_handleMouseMove(x, y) =>
                     /\ emitted' = Null
                     /\ currentDragZoom' = Some(ZoomBox(x))
                     /\ Mode' = "DraggingZoomBox"
                     /\ UNCHANGED <<props, timeScale, initialDragZoom>>
               /\ EventHandler_handleMouseUp(x, y) =>
                     /\ Mode' = "Idle"
                     /\ emitted' # Null <=>
                           /\ Abs(x - Val(initialDragZoom)) > DragThreshold
                           /\ MinDurationHolds(ZoomBox(x))
                     /\ emitted' # Null => emitted' = Some(ZoomBox(x))]_vars

\* A box dragged from x = 100 to x = 150 on [0, 100000] with minDuration
\* 5000 was committed on release
C12_Witness ==
    /\ lastEvent = "mouseUp"
    /\ prevMode = "DraggingZoomBox"
    /\ Mode = "Idle"
    /\ props.minDuration = Some(5000)
    /\ emitted = Some(<<14184, 21276>>)

\* C13: a pointerDown received while the machine is Panning or
\* DraggingZoomBox is ignored, leaving the mode and the recorded drag anchor
\* as they were and emitting nothing; so the machine is never Panning and
\* DraggingZoomBox at once, and it holds the anchor of a pan exactly while
\* Panning and the anchor of a zoom box exactly while DraggingZoomBox (at most
\* one unmatched pointerDown).
C13_SecondDownIgnored ==
    [][/\ ~(isPanning' /\ isDragging')
       /\ isPanning' <=> initialPanPosition' # Null
       /\ isDragging' <=> initialDragZoom' # Null
       /\ \A x \in PointerXs, y \in PointerYs, shiftKey \in BOOLEAN :
             (EventHandler_handleMouseDown(x, y, shiftKey) /\ (isPanning \/ isDragging))
                => /\ UNCHANGED handlerVars
                   /\ emitted' = Null /\ ~clicked']_vars

\* A pointerDown with shift at x = 150 arrived during a pan anchored at
\* x = 100, which goes on
C13_Witness ==
    /\ lastEvent = "mouseDown"
    /\ prevMode = "Panning"
    /\ Mode = "Panning"
    /\ initialPanPosition = <<100, 10>>
    /\ initialDragZoom = Null
    /\ nEvents = 2

----------------------------------------------------------------------------
(* Properties of the tracker *)

\* The tracker is drawn for the times the time range contains
TrackerTimes ==
    IF props.timeRange[1] <= props.timeRange[2]
    THEN SampleTimes(props.timeRange[1], props.timeRange[2])
    ELSE {}

\* C14 as claimed: the position function passed with a tracker-changed
\* notification maps a time t to the x, relative to the whole chart, at which
\* the container draws the tracker marker of t, for every leftWidth and every
\* left padding.
C14_PositionIsMarkerX ==
    Rendered => \A t \in TrackerTimes : handleTrackerChanged_position(t) = TrackerMarkerX(t)

\* Width 800, padding 10, the example rows (leftWidth 65) and [0, 100000]
C14_FailingInput ==
    /\ Rendered
    /\ children = ExampleRows
    /\ props.width = 800 /\ props.padding = 10 /\ ~props.hasPaddingLeft
    /\ props.timeRange = <<0, 100000>>
    /\ handleTrackerChanged_position(0) = <<65, 1>>
    /\ TrackerMarkerX(0) = <<75, 1>>

\* The rendered rows that were given trackerShowTime = true
ShowingTime == {k \in DOMAIN out.chartRows : out.chartRows[k].trackerShowTime}

\* C15 as claimed: in a layout pass that renders at least one visible row,
\* exactly one rendered row receives trackerShowTime = true, the first
\* rendered one, whatever the visibility of the rows and whatever other
\* children precede them.
C15_OneRowShowsTime ==
    (Rendered /\ out.chartRows # <<>>) => ShowingTime = {1}

\* An invisible row followed by a visible one: the visible row is rendered
\* without trackerShowTime
C15_FailingInput ==
    /\ Rendered
    /\ children = <<RowOf(<<ChartsChild>>, FALSE, 200), RowOf(<<ChartsChild>>, TRUE, 200)>>
    /\ Len(out.chartRows) = 1
    /\ ShowingTime = {}

====
